---- MODULE Spec2Model ----
(***************************************************************************)
(* Model of mvp/run_demo.py: the demo launcher that resolves the compiler  *)
(* and the sample program next to its own file, runs the compiler in a     *)
(* child interpreter with --run, waits, and exits with the child's status. *)
(*                                                                         *)
(* Two invocations of the same installed launcher are modelled side by     *)
(* side (Runs), so that statements comparing two runs are state            *)
(* predicates.  The environment (caller's working directory, the form of   *)
(* __file__, the launcher's own command line, the presence of the two      *)
(* files, whether the OS can create the child, how the child ends) is      *)
(* chosen nondeterministically.  POSIX process semantics are modelled.     *)
(***************************************************************************)
EXTENDS Integers, Sequences, FiniteSets, TLC

Runs == {1, 2}

\* ------------------------------------------------------------------ bounds
\* Longest command line given to the launcher itself (sys.argv[1:]).
MaxArgs == 1

\* ------------------------------------------------------------- environment
\* The directory the launcher is installed in, and the launcher's real file.
InstallDir == <<"opt", "mvp">>
LauncherName == "run_demo.py"
LauncherFile == Append(InstallDir, LauncherName)

\* A directory symlink /lnk -> /opt/mvp through which the launcher may be named.
LinkDir == <<"lnk">>
IsSymlink(parts) == parts = LinkDir
LinkTarget(parts) == InstallDir

\* Working directories the caller may be in.
Cwds == {<<"home">>, InstallDir}

\* Exit codes a child may exit with, and signals that may kill it.
ExitCodes == {0, 1, 2, 127}
Signals == {9}

\* Tokens of the launcher's own command line.
ArgTokens == {"-v"}
ArgVectors == UNION {[1..n -> ArgTokens] : n \in 0..MaxArgs}

\* ------------------------------------------------------------------- paths
\* A path is [abs, parts]: pathlib's anchor and components.
AbsPath(parts) == [abs |-> TRUE, parts |-> parts]
RelPath(parts) == [abs |-> FALSE, parts |-> parts]
Unset == RelPath(<<>>)

RECURSIVE Ups(_)
Ups(n) == IF n = 0 THEN <<>> ELSE <<"..">> \o Ups(n - 1)

IsPrefix(s, t) == Len(s) <= Len(t) /\ SubSeq(t, 1, Len(s)) = s

\* The values __file__ can have for a launcher started from cwd: the absolute
\* real name, the name through the symlinked directory, or a name relative
\* to cwd (interpreters that keep the command line's spelling).
FileForms(dir) ==
    { AbsPath(LauncherFile),
      AbsPath(Append(LinkDir, LauncherName)),
      RelPath(IF IsPrefix(dir, LauncherFile)
              THEN SubSeq(LauncherFile, Len(dir) + 1, Len(LauncherFile))
              ELSE Ups(Len(dir)) \o LauncherFile) }

\* os.path.realpath over the components: ".." pops, a symlink is followed.
RECURSIVE RealPath(_, _)
RealPath(rest, acc) ==
    IF rest = <<>> THEN acc
    ELSE LET c == Head(rest)
             next == IF c = ".."
                     THEN (IF acc = <<>> THEN acc ELSE SubSeq(acc, 1, Len(acc) - 1))
                     ELSE IF IsSymlink(Append(acc, c))
                     THEN LinkTarget(Append(acc, c))
                     ELSE Append(acc, c)
         IN RealPath(Tail(rest), next)

\* Path.resolve(): made absolute against the working directory, then real.
Resolve(p, dir) ==
    AbsPath(RealPath(IF p.abs THEN p.parts ELSE dir \o p.parts, <<>>))

\* Path.parent
Parent(p) ==
    [abs |-> p.abs,
     parts |-> IF p.parts = <<>> THEN <<>> ELSE SubSeq(p.parts, 1, Len(p.parts) - 1)]

\* root / "name"
Join(p, name) == [abs |-> p.abs, parts |-> Append(p.parts, name)]

\* str(path)
RECURSIVE JoinSlash(_)
JoinSlash(parts) ==
    IF parts = <<>> THEN ""
    ELSE IF Len(parts) = 1 THEN parts[1]
    ELSE parts[1] \o "/" \o JoinSlash(Tail(parts))

Str(p) ==
    IF p.abs THEN "/" \o JoinSlash(p.parts)
    ELSE IF p.parts = <<>> THEN "." ELSE JoinSlash(p.parts)

sys_executable == "/usr/bin/python3"

\* -------------------------------------------------------------------- state
VARIABLES
    pc,              \* "idle", "main", "resolved", "running", "done"
    cwd,             \* the caller's working directory
    file,            \* __file__
    args,            \* sys.argv[1:]
    compilerExists,  \* llmpl_to_python.py is present and readable
    sourceExists,    \* example_mvp.llmpl is present
    root, compiler, source,
    argv, childCwd,  \* what the child was started with
    child,           \* "none", "running", "exited"
    returncode,      \* the child's returncode as subprocess reports it
    spawns,          \* children created by this run
    raised,          \* an exception left main()
    result,          \* the value main() returned
    exitCode         \* the launcher's exit status, once pc = "done"

vars == <<pc, cwd, file, args, compilerExists, sourceExists, root, compiler,
          source, argv, childCwd, child, returncode, spawns, raised, result,
          exitCode>>

envVars == <<cwd, file, args, compilerExists, sourceExists>>
pathVars == <<root, compiler, source>>
childVars == <<argv, childCwd, child, returncode, spawns>>
exitVars == <<raised, result, exitCode>>

Init ==
    /\ pc = [r \in Runs |-> "idle"]
    /\ cwd = [r \in Runs |-> <<>>]
    /\ file = [r \in Runs |-> Unset]
    /\ args = [r \in Runs |-> <<>>]
    /\ compilerExists = [r \in Runs |-> TRUE]
    /\ sourceExists = [r \in Runs |-> TRUE]
    /\ root = [r \in Runs |-> Unset]
    /\ compiler = [r \in Runs |-> Unset]
    /\ source = [r \in Runs |-> Unset]
    /\ argv = [r \in Runs |-> <<>>]
    /\ childCwd = [r \in Runs |-> Unset]
    /\ child = [r \in Runs |-> "none"]
    /\ returncode = [r \in Runs |-> 0]
    /\ spawns = [r \in Runs |-> 0]
    /\ raised = [r \in Runs |-> FALSE]
    /\ result = [r \in Runs |-> 0]
    /\ exitCode = [r \in Runs |-> 0]

\* ------------------------------------------------------------------ helpers
\* Variant: the anchor taken from the working directory (Path.cwd()).
Anchor_Cwd(f, dir) == AbsPath(dir)

\* root = Path(__file__).resolve().parent
Anchor(f, dir) == Parent(Resolve(f, dir))

\* Variant: the launcher's own command line forwarded (+ sys.argv[1:]).
Argv_WithArgs(r) ==
    <<sys_executable, Str(compiler[r]), Str(source[r]), "--run">> \o args[r]

\* [sys.executable, str(compiler), str(source), "--run"]
Argv(r) == <<sys_executable, Str(compiler[r]), Str(source[r]), "--run">>

\* Variant: cwd= left out, the child inherits the caller's directory.
ChildCwd_Inherit(r) == AbsPath(cwd[r])

\* cwd=root
ChildCwd(r) == root[r]

\* Variant: the status normalised to success/failure.
MainReturn_Normalised(rc) == IF rc = 0 THEN 0 ELSE 1

\* return result.returncode
MainReturn(rc) == rc

\* raise SystemExit(n): the status the parent of the launcher sees.
ExitStatus(n) == n % 256

\* Status of an interpreter that ends on an uncaught exception.
UncaughtExit == 1

\* Status of an interpreter that cannot open its script.
MissingScriptExit == 2

\* ------------------------------------------------------------------ actions
\* The launcher is started: the interpreter sets __file__ and sys.argv.
Invoke(r) ==
    /\ pc[r] = "idle"
    /\ \E d \in Cwds, a \in ArgVectors, ce \in BOOLEAN, se \in BOOLEAN :
         \E f \in FileForms(d) :
            /\ cwd' = [cwd EXCEPT ![r] = d]
            /\ file' = [file EXCEPT ![r] = f]
            /\ args' = [args EXCEPT ![r] = a]
            /\ compilerExists' = [compilerExists EXCEPT ![r] = ce]
            /\ sourceExists' = [sourceExists EXCEPT ![r] = se]
    /\ pc' = [pc EXCEPT ![r] = "main"]
    /\ UNCHANGED <<pathVars, childVars, exitVars>>

\* main(), the three path assignments.
ResolvePaths(r) ==
    /\ pc[r] = "main"
    /\ LET anchor == Anchor(file[r], cwd[r]) IN
         /\ root' = [root EXCEPT ![r] = anchor]
         /\ compiler' = [compiler EXCEPT ![r] = Join(anchor, "llmpl_to_python.py")]
         /\ source' = [source EXCEPT ![r] = Join(anchor, "example_mvp.llmpl")]
    /\ pc' = [pc EXCEPT ![r] = "resolved"]
    /\ UNCHANGED <<envVars, childVars, exitVars>>

\* Variant: the sample program is checked first (if not source.exists():
\* return 1) and the compiler is not run without it.
Spawn_Prevalidate(r) ==
    /\ pc[r] = "resolved"
    /\ IF sourceExists[r]
       THEN /\ argv' = [argv EXCEPT ![r] = <<sys_executable, Str(compiler[r]),
                                              Str(source[r]), "--run">>]
            /\ childCwd' = [childCwd EXCEPT ![r] = root[r]]
            /\ child' = [child EXCEPT ![r] = "running"]
            /\ spawns' = [spawns EXCEPT ![r] = @ + 1]
            /\ pc' = [pc EXCEPT ![r] = "running"]
            /\ UNCHANGED <<returncode, exitVars>>
       ELSE /\ result' = [result EXCEPT ![r] = 1]
            /\ exitCode' = [exitCode EXCEPT ![r] = 1]
            /\ pc' = [pc EXCEPT ![r] = "done"]
            /\ UNCHANGED <<childVars, raised>>
    /\ UNCHANGED <<envVars, pathVars>>

\* subprocess.run(...): the child is created.
Spawn(r) ==
    /\ pc[r] = "resolved"
    /\ argv' = [argv EXCEPT ![r] = Argv(r)]
    /\ childCwd' = [childCwd EXCEPT ![r] = ChildCwd(r)]
    /\ child' = [child EXCEPT ![r] = "running"]
    /\ spawns' = [spawns EXCEPT ![r] = @ + 1]
    /\ pc' = [pc EXCEPT ![r] = "running"]
    /\ UNCHANGED <<envVars, pathVars, returncode, exitVars>>

\* Variant: the OSError swallowed (except OSError: return 0).
SpawnFail_Swallowed(r) ==
    /\ pc[r] = "resolved"
    /\ raised' = [raised EXCEPT ![r] = TRUE]
    /\ exitCode' = [exitCode EXCEPT ![r] = 0]
    /\ pc' = [pc EXCEPT ![r] = "done"]
    /\ UNCHANGED <<envVars, pathVars, childVars, result>>

\* subprocess.run(...): the OS cannot create the child (OSError); nothing
\* catches it, so it leaves main() and the interpreter exits on it.
SpawnFail(r) ==
    /\ pc[r] = "resolved"
    /\ raised' = [raised EXCEPT ![r] = TRUE]
    /\ exitCode' = [exitCode EXCEPT ![r] = UncaughtExit]
    /\ pc' = [pc EXCEPT ![r] = "done"]
    /\ UNCHANGED <<envVars, pathVars, childVars, result>>

\* The child interpreter ends by itself: with status 2 when it cannot open
\* the compiler script, with the compiler's status otherwise.
ChildExit(r) ==
    /\ child[r] = "running"
    /\ \E c \in (IF compilerExists[r] THEN ExitCodes ELSE {MissingScriptExit}) :
         returncode' = [returncode EXCEPT ![r] = c]
    /\ child' = [child EXCEPT ![r] = "exited"]
    /\ UNCHANGED <<pc, envVars, pathVars, argv, childCwd, spawns, exitVars>>

\* The child is killed by a signal: subprocess reports -signal.
ChildKilled(r) ==
    /\ child[r] = "running"
    /\ \E s \in Signals : returncode' = [returncode EXCEPT ![r] = -s]
    /\ child' = [child EXCEPT ![r] = "exited"]
    /\ UNCHANGED <<pc, envVars, pathVars, argv, childCwd, spawns, exitVars>>

\* Variant: check=True, a non-zero returncode raises CalledProcessError.
Wait_CheckTrue(r) ==
    /\ pc[r] = "running"
    /\ child[r] = "exited"
    /\ IF returncode[r] = 0
       THEN /\ result' = [result EXCEPT ![r] = 0]
            /\ exitCode' = [exitCode EXCEPT ![r] = 0]
            /\ UNCHANGED raised
       ELSE /\ raised' = [raised EXCEPT ![r] = TRUE]
            /\ exitCode' = [exitCode EXCEPT ![r] = UncaughtExit]
            /\ UNCHANGED result
    /\ pc' = [pc EXCEPT ![r] = "done"]
    /\ UNCHANGED <<envVars, pathVars, childVars>>

\* Variant: a failed child is run once more.
Wait_Retry(r) ==
    /\ pc[r] = "running"
    /\ child[r] = "exited"
    /\ IF returncode[r] # 0 /\ spawns[r] < 2
       THEN /\ pc' = [pc EXCEPT ![r] = "resolved"]
            /\ UNCHANGED <<result, exitCode>>
       ELSE /\ result' = [result EXCEPT ![r] = returncode[r]]
            /\ exitCode' = [exitCode EXCEPT ![r] = returncode[r] % 256]
            /\ pc' = [pc EXCEPT ![r] = "done"]
    /\ UNCHANGED <<envVars, pathVars, childVars, raised>>

\* Variant: the child is started and not waited for (Popen, no wait()).
Wait_NoWait(r) ==
    /\ pc[r] = "running"
    /\ child[r] \in {"running", "exited"}
    /\ result' = [result EXCEPT ![r] = 0]
    /\ exitCode' = [exitCode EXCEPT ![r] = 0]
    /\ pc' = [pc EXCEPT ![r] = "done"]
    /\ UNCHANGED <<envVars, pathVars, childVars, raised>>

\* Variant: timeout= given; on expiry run() kills the child and raises.
Wait_Timeout(r) ==
    /\ pc[r] = "running"
    /\ \/ /\ child[r] = "exited"
          /\ result' = [result EXCEPT ![r] = returncode[r]]
          /\ exitCode' = [exitCode EXCEPT ![r] = returncode[r] % 256]
          /\ UNCHANGED <<childVars, raised>>
       \/ /\ child[r] = "running"
          /\ child' = [child EXCEPT ![r] = "exited"]
          /\ returncode' = [returncode EXCEPT ![r] = -9]
          /\ raised' = [raised EXCEPT ![r] = TRUE]
          /\ exitCode' = [exitCode EXCEPT ![r] = UncaughtExit]
          /\ UNCHANGED <<argv, childCwd, spawns, result>>
    /\ pc' = [pc EXCEPT ![r] = "done"]
    /\ UNCHANGED <<envVars, pathVars>>

\* subprocess.run returns once the child has ended (check=False: whatever
\* its returncode); main returns it and SystemExit carries it out.
Wait(r) ==
    /\ pc[r] = "running"
    /\ child[r] = "exited"
    /\ result' = [result EXCEPT ![r] = MainReturn(returncode[r])]
    /\ exitCode' = [exitCode EXCEPT ![r] = ExitStatus(MainReturn(returncode[r]))]
    /\ pc' = [pc EXCEPT ![r] = "done"]
    /\ UNCHANGED <<envVars, pathVars, childVars, raised>>

\* One invocation: the steps of run r and of its child.
Launcher(r) ==
    \/ Invoke(r)
    \/ ResolvePaths(r)
    \/ Spawn(r)
    \/ SpawnFail(r)
    \/ ChildExit(r)
    \/ ChildKilled(r)
    \/ Wait(r)

Next == \E r \in Runs : Launcher(r)

Spec == Init /\ [][Next]_vars

\* The launcher's own steps are taken once enabled; an interpreter that
\* cannot open its script ends at once.  A compiler that runs may run forever.
Fairness(r) ==
    /\ WF_vars(ResolvePaths(r))
    /\ WF_vars(Spawn(r) \/ SpawnFail(r))
    /\ WF_vars(Wait(r))
    /\ WF_vars(ChildExit(r) /\ ~compilerExists[r])

\* One invocation followed to its end.  The script is single-threaded and
\* runs share nothing, so what eventually happens in a run is decided by
\* that run alone; the other run stays idle here.
NextOne == Launcher(1)

FairSpec == Init /\ [][NextOne]_vars /\ Fairness(1)

\* ------------------------------------------------------------------- claims
Anchored == AbsPath(InstallDir)
Spawned(r) == spawns[r] > 0
Done(r) == pc[r] = "done"

\* The failed-launch cases: the child could not be created, or the
\* interpreter was created and could not open the compiler script.
SpawnFailure(r) == raised[r] \/ (Spawned(r) /\ ~compilerExists[r])

\* The two outcomes whose exit statuses are compared.
LaunchFailed(r) == Done(r) /\ SpawnFailure(r)
RanAndFailed(r) ==
    Done(r) /\ ~raised[r] /\ Spawned(r) /\ compilerExists[r] /\ returncode[r] # 0

\* The lifecycle states of the launcher and the steps between them.
Phase(p) ==
    IF p \in {"idle", "main", "resolved"} THEN "Idle"
    ELSE IF p = "running" THEN "Running" ELSE "Terminated"

StrictSteps ==
    { <<"Idle", "Idle">>, <<"Idle", "Running">>, <<"Running", "Running">>,
      <<"Running", "Terminated">>, <<"Terminated", "Terminated">> }

RunFrozen(r) ==
    /\ pc'[r] = pc[r] /\ exitCode'[r] = exitCode[r] /\ result'[r] = result[r]
    /\ spawns'[r] = spawns[r] /\ child'[r] = child[r] /\ raised'[r] = raised[r]

\* C1 as stated: for every status the child ends with, the launcher does not
\* raise, main returns the returncode unmodified and the launcher's exit
\* status is that very value.
C1_ExitVerbatim ==
    \A r \in Runs :
        (Done(r) /\ child[r] = "exited") =>
            /\ ~raised[r]
            /\ result[r] = returncode[r]
            /\ exitCode[r] = returncode[r]

\* C1 amended: for every status the child ends with, the launcher does not
\* raise and main returns the returncode unmodified; the launcher's exit
\* status equals the child's exit code c for every c in 0..255, and is
\* 256 - n when the child was killed by signal n (returncode -n).
C1_ExitCodeFidelity ==
    \A r \in Runs :
        (Done(r) /\ child[r] = "exited") =>
            /\ ~raised[r]
            /\ result[r] = returncode[r]
            /\ (returncode[r] \in 0..255 => exitCode[r] = returncode[r])
            /\ (returncode[r] < 0 => exitCode[r] = 256 + returncode[r])

C1_Witness ==
    \E r \in Runs :
        Done(r) /\ child[r] = "exited" /\ returncode[r] = 127 /\ exitCode[r] = 127

\* C2: the argument vector given to the child is exactly [runtime,
\* compiler path, sample path, "--run"], four elements in that order, and
\* nothing of the launcher's own command line is in it.
C2_ArgumentVector ==
    \A r \in Runs :
        Spawned(r) =>
            /\ Len(argv[r]) = 4
            /\ argv[r] = <<sys_executable, Str(compiler[r]), Str(source[r]), "--run">>
            /\ argv[r] = <<"/usr/bin/python3", "/opt/mvp/llmpl_to_python.py",
                           "/opt/mvp/example_mvp.llmpl", "--run">>

C2_Witness ==
    \E r \in Runs : Spawned(r) /\ Len(args[r]) > 0 /\ Len(argv[r]) = 4

\* C3: two runs of the installed launcher resolve the same compiler path and
\* the same sample path whatever their working directories, each the
\* launcher's own real directory joined with the fixed file name.
C3_PathAnchoring ==
    \A r1 \in Runs, r2 \in Runs :
        (pc[r1] \notin {"idle", "main"} /\ pc[r2] \notin {"idle", "main"}) =>
            /\ compiler[r1] = compiler[r2]
            /\ source[r1] = source[r2]
            /\ root[r1] = Anchored
            /\ compiler[r1] = Join(Anchored, "llmpl_to_python.py")
            /\ source[r1] = Join(Anchored, "example_mvp.llmpl")

C3_Witness ==
    \E r1 \in Runs, r2 \in Runs :
        /\ pc[r1] = "resolved" /\ pc[r2] = "resolved"
        /\ cwd[r1] # cwd[r2]
        /\ ~file[r1].abs /\ file[r2].parts[1] = "lnk"
        /\ compiler[r1] = compiler[r2]

\* C4: a spawned child's working directory is the directory holding the
\* launcher file, whatever directory the launcher was started from.
C4_ChildWorkingDirectory ==
    \A r \in Runs : Spawned(r) => childCwd[r] = Anchored /\ childCwd[r] = root[r]

C4_Witness ==
    \E r \in Runs : Spawned(r) /\ cwd[r] # InstallDir /\ childCwd[r] = Anchored

C6_Distinguishable ==
    \A r1 \in Runs, r2 \in Runs :
        (LaunchFailed(r1) /\ RanAndFailed(r2)) => exitCode[r1] # exitCode[r2]

\* C6 amended: when the compiler script is missing or unreadable the child
\* interpreter is still launched and, unless killed, exits 2, which the
\* launcher forwards; when the child cannot be created the launcher exits 1.
\* Both are non-zero and both are statuses a compiler that ran can produce.
C6_SpawnFailureStatus ==
    \A r \in Runs :
        Done(r) =>
            /\ raised[r] => exitCode[r] = 1 /\ exitCode[r] \in ExitCodes \ {0}
            /\ (~raised[r] /\ ~compilerExists[r] /\ returncode[r] >= 0) =>
                   exitCode[r] = 2 /\ exitCode[r] \in ExitCodes \ {0}

C6_Witness ==
    \E r1 \in Runs, r2 \in Runs :
        /\ Done(r1) /\ ~raised[r1] /\ ~compilerExists[r1] /\ exitCode[r1] = 2
        /\ RanAndFailed(r2) /\ exitCode[r2] = 2

\* C7 as stated: every invocation spawns exactly one child, never zero and
\* never more than one.
C7_ExactlyOneSpawn ==
    \A r \in Runs : (pc[r] \in {"running", "done"}) => spawns[r] = 1

\* C7 amended: every invocation spawns at most one child and never re-runs
\* it; exactly one whenever the child can be created (whatever its exit code
\* and whether or not the compiler or sample file exists), and none when
\* process creation itself fails.
C7_SingleSpawn ==
    \A r \in Runs :
        /\ spawns[r] <= 1
        /\ pc[r] = "running" => spawns[r] = 1
        /\ Done(r) => (spawns[r] = 1 <=> ~raised[r])
        /\ pc[r] \in {"idle", "main", "resolved"} => spawns[r] = 0

C7_Witness ==
    \E r \in Runs :
        /\ Done(r) /\ spawns[r] = 1 /\ returncode[r] = 1
        /\ ~sourceExists[r] /\ compilerExists[r]

\* C8: whether the sample program exists changes none of the launcher's
\* steps: the child is spawned with the same argument vector and working
\* directory in both cases, and the exit code is what the child returns.
C8_NoPrevalidation ==
    /\ \A r1 \in Runs, r2 \in Runs :
          (Spawned(r1) /\ Spawned(r2) /\ sourceExists[r1] # sourceExists[r2]) =>
              argv[r1] = argv[r2] /\ childCwd[r1] = childCwd[r2]
    /\ \A r \in Runs :
          (Done(r) /\ ~raised[r]) =>
              /\ spawns[r] = 1
              /\ argv[r][3] = Str(source[r])
              /\ returncode[r] >= 0 => exitCode[r] = returncode[r]

C8_Witness ==
    \E r1 \in Runs, r2 \in Runs :
        /\ Done(r1) /\ Done(r2) /\ ~raised[r1] /\ ~raised[r2]
        /\ sourceExists[r1] /\ ~sourceExists[r2]
        /\ argv[r1] = argv[r2] /\ exitCode[r2] = 0

\* C9 as stated: a run moves only along Idle -> Running -> Terminated; it is
\* Terminated only after the child has ended, with the forwarded exit code,
\* and nothing leaves Terminated.
C9_StrictLifecycle ==
    [][\A r \in Runs :
         /\ <<Phase(pc[r]), Phase(pc'[r])>> \in StrictSteps
         /\ pc'[r] = "done" => child'[r] = "exited"
         /\ pc[r] = "done" => RunFrozen(r)]_vars

\* C9 amended: a run moves only along Idle -> Running -> Terminated, or
\* straight from Idle to Terminated (no child, exit status 1) when the child
\* cannot be created; Running begins at the spawn and ends only once the
\* child has ended, so the launcher is never Terminated while the child
\* runs; Terminated is the only terminal state, carries the forwarded exit
\* code (or 1 after the failed creation) and is never left.
C9_Lifecycle ==
    /\ [][\A r \in Runs :
            /\ \/ <<Phase(pc[r]), Phase(pc'[r])>> \in StrictSteps
               \/ /\ pc[r] = "resolved" /\ pc'[r] = "done"
                  /\ raised'[r] /\ spawns'[r] = 0 /\ child'[r] = "none"
                  /\ exitCode'[r] = 1
            /\ (pc[r] # "running" /\ pc'[r] = "running") =>
                   spawns'[r] = spawns[r] + 1 /\ child'[r] = "running"
            /\ (pc[r] = "running" /\ pc'[r] = "done") =>
                   child[r] = "exited" /\ exitCode'[r] = returncode[r] % 256
            /\ pc[r] = "done" => RunFrozen(r)]_vars
    /\ [](\A r \in Runs : Done(r) => child[r] # "running")
    /\ [](\A r \in Runs : pc[r] = "running" => child[r] # "none")

C9_Witness ==
    \E r1 \in Runs, r2 \in Runs :
        /\ Done(r1) /\ child[r1] = "exited" /\ exitCode[r1] = 0 /\ ~raised[r1]
        /\ pc[r2] = "running" /\ child[r2] = "running"

\* C10: once the child runs, the launcher leaves Running only after the child
\* has ended; when the child ends (by itself or killed) the launcher
\* eventually terminates, and while the child never ends the launcher stays
\* in Running.
C10_NoTimeout ==
    /\ [][\A r \in Runs :
            (pc[r] = "running" /\ pc'[r] # "running") => child[r] = "exited"]_vars
    /\ \A r \in Runs : (pc[r] = "running" /\ child[r] = "exited") ~> Done(r)
    /\ \A r \in Runs : <>[](child[r] = "running") => <>[](pc[r] = "running")

C10_Witness ==
    \E r \in Runs :
        /\ Done(r) /\ child[r] = "exited" /\ compilerExists[r]
        /\ returncode[r] = -9 /\ exitCode[r] = 247

====
